---- MODULE Spec2Model ----
(***************************************************************************)
(* A model of the Doxygen search tool: the search engine family            *)
(* (SimpleSearchEngine, FuzzySearchEngine, AISearchEngine over the         *)
(* SearchEngine base class) and the DoxygenParser orchestrator.            *)
(*                                                                         *)
(* Conventions                                                             *)
(*  - A JavaScript string is a sequence of one-character strings.          *)
(*  - An optional value (undefined | v) is the set {} or {v}.              *)
(*  - A nullable return (null | v) of a scoring function is the sequence   *)
(*    <<>> or <<v>>, so that the matches of several fields concatenate.    *)
(*  - A SearchResult's entity is a reference into the loaded snapshot: it  *)
(*    is modelled by the position of the entity in the snapshot.           *)
(*  - Scores are exact rationals: a field score s is held as s * ScoreOne, *)
(*    a relevance r as r * RelOne.  Elapsed times are left out.            *)
(***************************************************************************)
EXTENDS Integers, Sequences, FiniteSets, TLC

VARIABLES
  engineType,   \* which engine SearchEngineFactory.create built
  options,      \* SearchEngine.options
  entities,     \* SearchEngine.entities, the loaded snapshot
  fuse,         \* FuzzySearchEngine.fuse: {} (null) or {index}
  stats,        \* the engine's stats field: {} (undefined) or {SearchStats}
  ret,          \* what the most recent engine call did and returned
  everLoaded,   \* history: loadEntities has been called on this engine
  sf,           \* the most recent application of scoreField on its own
  fs,           \* the directory parse is called on: its listing and documents
  popts,        \* DoxygenParser.options, as mergeOptions left them
  pc,           \* where the parse call stands: the await it is suspended at
  files,        \* parse's files
  toLoad,       \* parse's compoundsToLoad
  done,         \* how many of them parseCompounds has handled
  pentities,    \* parseCompounds' entities
  errors,       \* DoxygenParser.errors
  presult,      \* {} or {the ParseResult the call returned}
  built,        \* the most recent application of an entity builder on its own
  reading,      \* the documents whose read is outstanding: 0 for the index
  cmd,          \* where a searchCommand call stands, its inputs and its results
  overlap       \* two parse calls on one DoxygenParser and the arrays this.errors has named

engineVars == <<engineType, options, entities, fuse, stats, ret, everLoaded>>

parserVars == <<fs, popts, pc, files, toLoad, done, pentities, errors, presult, built,
                reading, cmd, overlap>>

vars == <<engineType, options, entities, fuse, stats, ret, everLoaded, sf,
          fs, popts, pc, files, toLoad, done, pentities, errors, presult, built,
          reading, cmd, overlap>>

-----------------------------------------------------------------------------
(* Bounds of the model *)

MaxEntities == 2    \* longest snapshot handed to loadEntities
MaxLimit == 2       \* largest maxResults given to configure or a query
MaxStrLen == 3      \* longest string handed to scoreField on its own
MaxCompounds == 2   \* most compounds an index document lists

-----------------------------------------------------------------------------
(* Optional values and small helpers *)

Undefined == {}

Some(v) == {v}

Get(o) == CHOOSE v \in o : TRUE

Min(a, b) == IF a <= b THEN a ELSE b

Max(a, b) == IF a >= b THEN a ELSE b

RECURSIVE Gcd(_, _)
Gcd(a, b) == IF b = 0 THEN a ELSE Gcd(b, a % b)

RECURSIVE LcmUpTo(_)
LcmUpTo(n) == IF n <= 1 THEN 1 ELSE LET l == LcmUpTo(n - 1) IN (l * n) \div Gcd(l, n)

RECURSIVE SeqsUpTo(_, _)
\* the sequences over S of length at most n
SeqsUpTo(S, n) ==
  IF n = 0 THEN {<<>>}
  ELSE LET shorter == SeqsUpTo(S, n - 1)
       IN  shorter \cup {Append(s, x) : s \in shorter, x \in S}

Distinct(s) == \A i, j \in 1..Len(s) : i # j => s[i] # s[j]

-----------------------------------------------------------------------------
(* Strings *)

ToLower ==
  ("W" :> "w") @@ ("M" :> "m") @@ ("C" :> "c") @@ ("A" :> "a") @@ ("B" :> "b")
    @@ ("I" :> "i") @@ ("D" :> "d") @@ ("G" :> "g") @@ ("E" :> "e") @@ ("T" :> "t")
    @@ ("H" :> "h")

toLowerCase_Identity(s) == s

toLowerCase(s) ==
  [i \in 1..Len(s) |-> IF s[i] \in DOMAIN ToLower THEN ToLower[s[i]] ELSE s[i]]

startsWith(s, t) == Len(t) <= Len(s) /\ SubSeq(s, 1, Len(t)) = t

endsWith(s, t) == Len(t) <= Len(s) /\ SubSeq(s, Len(s) - Len(t) + 1, Len(s)) = t

\* String.prototype.indexOf: the 0-based position of the first occurrence, or -1
indexOf(s, t) ==
  LET hits == {i \in 0..(Len(s) - Len(t)) : SubSeq(s, i + 1, i + Len(t)) = t}
  IN  IF hits = {} THEN -1 ELSE CHOOSE i \in hits : \A j \in hits : i <= j

includes(s, t) == indexOf(s, t) # -1

\* String.prototype.substring(a, b) for 0 <= a <= b <= length
substring(s, a, b) == SubSeq(s, a + 1, b)

\* Array.prototype.slice(0, end)
slice0(s, end) ==
  LET e == IF end < 0 THEN Max(Len(s) + end, 0) ELSE Min(end, Len(s))
  IN  SubSeq(s, 1, e)

-----------------------------------------------------------------------------
(* The entities the snapshots are built from *)

S_Widget == <<"W", "i", "d", "g", "e", "t">>
S_nsWidget == <<"n", "s", ":", ":", "W", "i", "d", "g", "e", "t">>
S_AWidget == <<"A", " ", "w", "i", "d", "g", "e", "t">>
S_draw == <<"d", "r", "a", "w">>
S_draws == <<"d", "r", "a", "w", "s">>
S_helper == <<"h", "e", "l", "p", "e", "r">>
S_nshelper == <<"n", "s", ":", ":", "h", "e", "l", "p", "e", "r">>
S_ns == <<"n", "s">>
S_widget == <<"w", "i", "d", "g", "e", "t">>
S_dr == <<"d", "r">>
S_raw == <<"r", "a", "w">>

\* a DoxygenEntity; an absent briefDescription and an empty one are both <<>>
Entity(id, kind, name, qualifiedName, brief) ==
  [id |-> id, kind |-> kind, name |-> name, qualifiedName |-> qualifiedName,
   briefDescription |-> brief]

EntityPool ==
  { Entity("classns_1_1Widget", "class", S_Widget, S_nsWidget, S_AWidget),
    Entity("classns_1_1Widget_1a1", "method", S_draw, S_draw, <<>>),
    Entity("namespacens_1a2", "function", S_helper, S_nshelper, S_draws),
    Entity("namespacens", "namespace", S_ns, S_ns, <<>>) }

\* the lists loadEntities is called with
Snapshots == {s \in SeqsUpTo(EntityPool, MaxEntities) : Distinct(s)}

Terms == {S_ns, S_widget, S_Widget, S_dr}

Limits == 1..MaxLimit

\* a SearchQuery: term, and the optional entityTypes, exactMatch, maxResults.
\* The queries that vary the term and the match mode:
MatchQueries ==
  [term : Terms,
   entityTypes : {Undefined, Some(<<"class">>)},
   exactMatch : {Undefined, Some(TRUE)},
   maxResults : {Undefined, Some(1)}]

\* the queries that vary the result limit
LimitQueries ==
  [term : {S_ns},
   entityTypes : {Undefined, Some(<<"function", "namespace">>)},
   exactMatch : {Undefined},
   maxResults : {Undefined, Some(0)} \cup {Some(n) : n \in Limits}]

-----------------------------------------------------------------------------
(* Scores as exact rationals *)

PoolStrings ==
  UNION {{e.name, e.qualifiedName, e.briefDescription} : e \in EntityPool}

MaxFieldLen ==
  LET lens == {Len(s) : s \in PoolStrings} \cup {MaxStrLen}
  IN  CHOOSE n \in lens : \A m \in lens : m <= n

\* every field length divides LenLcm, so position / fieldLength is exact
LenLcm == LcmUpTo(MaxFieldLen)

ScoreOne == 10 * LenLcm           \* the field score 1.0

ExactScore == ScoreOne            \* 1.0

PrefixScore == 9 * LenLcm         \* 0.9

\* 0.5 + (1 - position / fieldLength) * 0.3
SubstringScore(position, fieldLength) ==
  5 * LenLcm + 3 * (fieldLength - position) * (LenLcm \div fieldLength)

NameWeight == 10                  \* the field weights, in tenths: 1.0
QualifiedNameWeight == 8          \* 0.8
DescriptionWeight == 3            \* 0.3

RelOne == 10 * ScoreOne           \* the relevance 1.0

-----------------------------------------------------------------------------
(* SimpleSearchEngine *)

scoreField_PositionFromEnd(fieldValue, searchTerm, fieldName, exactMatch) ==
  IF fieldValue = searchTerm
    THEN <<[fieldName |-> fieldName, matchType |-> "exact", score |-> ExactScore]>>
  ELSE IF exactMatch THEN <<>>
  ELSE IF startsWith(fieldValue, searchTerm)
    THEN <<[fieldName |-> fieldName, matchType |-> "prefix", score |-> PrefixScore]>>
  ELSE IF includes(fieldValue, searchTerm)
    THEN <<[fieldName |-> fieldName, matchType |-> "substring",
            score |-> SubstringScore(Len(fieldValue) - indexOf(fieldValue, searchTerm),
                                     Len(fieldValue))]>>
  ELSE <<>>

\* the MatchedField of one field, or <<>> for null
scoreField(fieldValue, searchTerm, fieldName, exactMatch) ==
  IF fieldValue = searchTerm
    THEN <<[fieldName |-> fieldName, matchType |-> "exact", score |-> ExactScore]>>
  ELSE IF exactMatch THEN <<>>
  ELSE IF startsWith(fieldValue, searchTerm)
    THEN <<[fieldName |-> fieldName, matchType |-> "prefix", score |-> PrefixScore]>>
  ELSE IF includes(fieldValue, searchTerm)
    THEN <<[fieldName |-> fieldName, matchType |-> "substring",
            score |-> SubstringScore(indexOf(fieldValue, searchTerm), Len(fieldValue))]>>
  ELSE <<>>

contextLength == 40

getContext(text, start, length) ==
  LET beforeStart == Max(0, start - contextLength)
      afterEnd == Min(Len(text), start + length + contextLength)
      context == substring(text, beforeStart, afterEnd)
      dots == <<".", ".", ".">>
  IN  (IF beforeStart > 0 THEN dots ELSE <<>>) \o context
        \o (IF afterEnd < Len(text) THEN dots ELSE <<>>)

normalize_Never(opts, s) == s

\* scoreEntity's and generateHighlights' normalize
normalize(opts, s) == IF opts.caseSensitive THEN s ELSE toLowerCase(s)

RECURSIVE generateHighlights_InOriginalText(_, _, _, _)
generateHighlights_InOriginalText(opts, entity, searchTerm, matchedFields) ==
  IF matchedFields = <<>> THEN <<>>
  ELSE
    LET match == Head(matchedFields)
        rest == generateHighlights_InOriginalText(opts, entity, searchTerm,
                                                  Tail(matchedFields))
        fieldValue == entity[match.fieldName]
        index == indexOf(fieldValue, searchTerm)
    IN  IF index # -1
          THEN <<[field |-> match.fieldName, start |-> index,
                  length |-> Len(searchTerm),
                  context |-> getContext(fieldValue, index, Len(searchTerm))]>> \o rest
        ELSE rest

RECURSIVE generateHighlights(_, _, _, _)
generateHighlights(opts, entity, searchTerm, matchedFields) ==
  IF matchedFields = <<>> THEN <<>>
  ELSE
    LET match == Head(matchedFields)
        rest == generateHighlights(opts, entity, searchTerm, Tail(matchedFields))
        fieldValue == entity[match.fieldName]
        index == indexOf(normalize(opts, fieldValue), searchTerm)
    IN  IF match.fieldName \notin {"name", "qualifiedName", "briefDescription"}
          THEN rest
        ELSE IF index # -1
          THEN <<[field |-> match.fieldName, start |-> index,
                  length |-> Len(searchTerm),
                  context |-> getContext(fieldValue, index, Len(searchTerm))]>> \o rest
        ELSE rest

\* query.exactMatch || false
queryExactMatch(query) == query.exactMatch # Undefined /\ Get(query.exactMatch)

\* the match of each scored field of the entity, in the order they are pushed
matchesOf(opts, entity, searchTerm, query) ==
  scoreField(normalize(opts, entity.name), searchTerm, "name",
             queryExactMatch(query))
  \o scoreField(normalize(opts, entity.qualifiedName), searchTerm, "qualifiedName",
                queryExactMatch(query))
  \o (IF opts.includeDescriptions /\ entity.briefDescription # <<>>
        THEN scoreField(normalize(opts, entity.briefDescription), searchTerm,
                        "briefDescription", FALSE)
        ELSE <<>>)

fieldWeight(fieldName) ==
  CASE fieldName = "name" -> NameWeight
    [] fieldName = "qualifiedName" -> QualifiedNameWeight
    [] fieldName = "briefDescription" -> DescriptionWeight

RECURSIVE totalScoreOf(_)
totalScoreOf(matchedFields) ==
  IF matchedFields = <<>> THEN 0
  ELSE Head(matchedFields).score * fieldWeight(Head(matchedFields).fieldName)
         + totalScoreOf(Tail(matchedFields))

scoreEntity_NoClamp(opts, ref, entity, searchTerm, query) ==
  LET matchedFields == matchesOf(opts, entity, searchTerm, query)
  IN  IF matchedFields = <<>> THEN <<>>
      ELSE <<[entity |-> ref,
              relevance |-> totalScoreOf(matchedFields),
              matchedFields |-> matchedFields,
              highlights |-> IF opts.enableHighlights
                               THEN Some(generateHighlights(opts, entity, searchTerm,
                                                            matchedFields))
                               ELSE Undefined]>>

\* the SearchResult of the entity at position ref of the snapshot, or <<>> for null
scoreEntity(opts, ref, entity, searchTerm, query) ==
  LET matchedFields == matchesOf(opts, entity, searchTerm, query)
  IN  IF matchedFields = <<>> THEN <<>>
      ELSE <<[entity |-> ref,
              relevance |-> Min(totalScoreOf(matchedFields), RelOne),
              matchedFields |-> matchedFields,
              highlights |-> IF opts.enableHighlights
                               THEN Some(generateHighlights(opts, entity, searchTerm,
                                                            matchedFields))
                               ELSE Undefined]>>

\* where sort's stable insertion puts r: behind every result that does not sort after it
insertByRelevance_BeforeEquals(sorted, r) ==
  LET k == Cardinality({i \in 1..Len(sorted) : sorted[i].relevance > r.relevance})
  IN  SubSeq(sorted, 1, k) \o <<r>> \o SubSeq(sorted, k + 1, Len(sorted))

insertByRelevance(sorted, r) ==
  LET k == Cardinality({i \in 1..Len(sorted) : sorted[i].relevance >= r.relevance})
  IN  SubSeq(sorted, 1, k) \o <<r>> \o SubSeq(sorted, k + 1, Len(sorted))

RECURSIVE sortByRelevance(_)
\* Array.prototype.sort((a, b) => b.relevance - a.relevance), a stable sort
sortByRelevance(results) ==
  IF results = <<>> THEN <<>>
  ELSE insertByRelevance(sortByRelevance(SubSeq(results, 1, Len(results) - 1)),
                         results[Len(results)])

\* the positions of the snapshot that pass the query's entityTypes filter, in order
candidateEntities(ents, query) ==
  LET all == [i \in 1..Len(ents) |-> i]
      keep(i) == \E k \in 1..Len(Get(query.entityTypes)) :
                    Get(query.entityTypes)[k] = ents[i].kind
  IN  IF query.entityTypes # Undefined /\ Len(Get(query.entityTypes)) > 0
        THEN SelectSeq(all, keep)
        ELSE all

RECURSIVE scoreAll(_, _, _, _, _)
scoreAll(opts, ents, refs, searchTerm, query) ==
  IF refs = <<>> THEN <<>>
  ELSE LET result == scoreEntity(opts, Head(refs), ents[Head(refs)], searchTerm, query)
       IN  (IF result # <<>> /\ result[1].relevance > 0 THEN result ELSE <<>>)
             \o scoreAll(opts, ents, Tail(refs), searchTerm, query)

effectiveMaxResults_OptionsOnly(opts, query) == opts.maxResults

\* query.maxResults || this.options.maxResults
effectiveMaxResults(opts, query) ==
  IF query.maxResults # Undefined /\ Get(query.maxResults) # 0
    THEN Get(query.maxResults)
    ELSE opts.maxResults

SimpleSearch_CountsBeforeLimit(opts, ents, query) ==
  LET searchTerm == IF opts.caseSensitive THEN query.term ELSE toLowerCase(query.term)
      scoredResults ==
        sortByRelevance(scoreAll(opts, ents, candidateEntities(ents, query),
                                 searchTerm, query))
      results == slice0(scoredResults, effectiveMaxResults(opts, query))
  IN  [results |-> results,
       stats |-> [totalEntities |-> Len(ents),
                  matchedEntities |-> Len(scoredResults),
                  returnedResults |-> Len(scoredResults),
                  cacheHit |-> FALSE]]

\* SimpleSearchEngine.search: the returned list and the statistics it records
SimpleSearch(opts, ents, query) ==
  LET searchTerm == IF opts.caseSensitive THEN query.term ELSE toLowerCase(query.term)
      scoredResults ==
        sortByRelevance(scoreAll(opts, ents, candidateEntities(ents, query),
                                 searchTerm, query))
      results == slice0(scoredResults, effectiveMaxResults(opts, query))
  IN  [results |-> results,
       stats |-> [totalEntities |-> Len(ents),
                  matchedEntities |-> Len(scoredResults),
                  returnedResults |-> Len(results),
                  cacheHit |-> FALSE]]

-----------------------------------------------------------------------------
(* FuzzySearchEngine.  fuse.js is a library outside the repository: its    *)
(* search is taken to return any list of distinct documents of the index   *)
(* whose scores do not decrease and lie within the index's threshold.      *)

FuseDefaultThreshold == 4         \* 0.4, in tenths

FuseScores == {0, 5}              \* the match distances a document can get, in tenths

\* this.options.fuzzyThreshold || 0.4
fuzzyThresholdOf(opts) ==
  IF "fuzzyThreshold" \in DOMAIN opts /\ opts.fuzzyThreshold # 0
    THEN opts.fuzzyThreshold
    ELSE FuseDefaultThreshold

\* the lists this.fuse.search(term) of an index may return
FuseSearch(index) ==
  {r \in SeqsUpTo([item : 1..Len(index.docs), score : FuseScores], Len(index.docs)) :
     /\ \A i, j \in 1..Len(r) : i # j => r[i].item # r[j].item
     /\ \A i \in 1..Len(r) : r[i].score <= index.threshold
     /\ \A i \in 1..(Len(r) - 1) : r[i].score <= r[i + 1].score}

\* the terms the Fuzzy engine is searched with
FuzzyTerms == {q.term : q \in LimitQueries}

\* new Fuse(this.entities, {threshold, ...}): the indexes that may result; what an
\* index returns for a term is fixed when it is built
onEntitiesLoaded_Fuzzy(opts, ents) ==
  LET index == [docs |-> ents, threshold |-> fuzzyThresholdOf(opts)]
  IN  {Some([docs |-> ents, threshold |-> index.threshold, found |-> f]) :
         f \in [FuzzyTerms -> FuseSearch(index)]}

\* the SearchResult made of one Fuse result
fuzzyResult(opts, fr) ==
  [entity |-> fr.item,
   relevance |-> (10 - fr.score) * (RelOne \div 10),
   matchedFields |-> <<[fieldName |-> "name", matchType |-> "fuzzy",
                        score |-> (10 - fr.score) * (ScoreOne \div 10)]>>,
   highlights |-> IF opts.enableHighlights THEN Some(<<>>) ELSE Undefined]

FuzzySearch_ThresholdAtSearch(opts, ents, docs, query, fuseResults) ==
  LET within(fr) == fr.score <= fuzzyThresholdOf(opts)
      admitted == SelectSeq(fuseResults, within)
      converted == [i \in 1..Len(admitted) |-> fuzzyResult(opts, admitted[i])]
      keep(r) == \E k \in 1..Len(Get(query.entityTypes)) :
                    Get(query.entityTypes)[k] = docs[r.entity].kind
      filtered == IF query.entityTypes # Undefined /\ Len(Get(query.entityTypes)) > 0
                    THEN SelectSeq(converted, keep)
                    ELSE converted
      results == slice0(filtered, effectiveMaxResults(opts, query))
  IN  [results |-> results,
       stats |-> [totalEntities |-> Len(ents),
                  matchedEntities |-> Len(admitted),
                  returnedResults |-> Len(results),
                  cacheHit |-> FALSE]]

\* FuzzySearchEngine.search once the index exists, for the list Fuse returned
FuzzySearch(opts, ents, docs, query, fuseResults) ==
  LET converted == [i \in 1..Len(fuseResults) |-> fuzzyResult(opts, fuseResults[i])]
      keep(r) == \E k \in 1..Len(Get(query.entityTypes)) :
                    Get(query.entityTypes)[k] = docs[r.entity].kind
      filtered == IF query.entityTypes # Undefined /\ Len(Get(query.entityTypes)) > 0
                    THEN SelectSeq(converted, keep)
                    ELSE converted
      results == slice0(filtered, effectiveMaxResults(opts, query))
  IN  [results |-> results,
       stats |-> [totalEntities |-> Len(ents),
                  matchedEntities |-> Len(fuseResults),
                  returnedResults |-> Len(results),
                  cacheHit |-> FALSE]]

-----------------------------------------------------------------------------
(* SearchEngine: construction, configure, loadEntities *)

defaultMaxResults == 50

\* getDefaultOptions({})
getDefaultOptions ==
  [caseSensitive |-> FALSE, exactMatch |-> FALSE, maxResults |-> defaultMaxResults,
   enableHighlights |-> TRUE, includeDescriptions |-> TRUE, cacheResults |-> TRUE]

\* { ...a, ...b }
spread(a, b) == [k \in DOMAIN a \cup DOMAIN b |-> IF k \in DOMAIN b THEN b[k] ELSE a[k]]

\* the option subsets configure is called with: those that set the match mode
MatchOptions ==
  [caseSensitive : BOOLEAN] \cup [exactMatch : BOOLEAN]
    \cup [enableHighlights : BOOLEAN] \cup [includeDescriptions : BOOLEAN]
    \cup [caseSensitive : BOOLEAN, exactMatch : BOOLEAN]

\* those that set the result limit
LimitOptions ==
  [maxResults : Limits \cup {defaultMaxResults}]
    \cup [exactMatch : {FALSE}, maxResults : Limits]

EngineTypes == {"simple", "fuzzy", "ai"}

NoScoreField == [applied |-> FALSE]

EngineInit(types) ==
  /\ engineType \in types
  /\ options = getDefaultOptions
  /\ entities = <<>>
  /\ fuse = Undefined
  /\ stats = Undefined
  /\ ret = [op |-> "new"]
  /\ everLoaded = FALSE
  /\ sf = NoScoreField

configure_OntoDefaults(current, given) == spread(getDefaultOptions, given)

\* the options after configure(given)
configure(current, given) == spread(current, given)

Configure(inputs) ==
  /\ \E o \in inputs :
       /\ options' = configure(options, o)
       /\ ret' = [op |-> "configure", given |-> o]
  /\ UNCHANGED <<engineType, entities, fuse, stats, everLoaded, sf, parserVars>>

fuseAfterLoad_Never(type, opts, ents, old) == {old}

fuseAfterLoad_OnlyFirstLoad(type, opts, ents, old) ==
  IF type = "fuzzy" /\ old = Undefined THEN onEntitiesLoaded_Fuzzy(opts, ents) ELSE {old}

\* the indexes loadEntities may leave: only the fuzzy engine overrides the on-load
\* hook
fuseAfterLoad(type, opts, ents, old) ==
  IF type = "fuzzy" THEN onEntitiesLoaded_Fuzzy(opts, ents) ELSE {old}

LoadEntitiesFrom(lists) ==
  /\ \E list \in lists :
       /\ entities' = list
       /\ fuse' \in fuseAfterLoad(engineType, options, list, fuse)
  /\ everLoaded' = TRUE
  /\ ret' = [op |-> "loadEntities"]
  /\ UNCHANGED <<engineType, options, stats, sf, parserVars>>

LoadEntities == LoadEntitiesFrom(Snapshots)

SearchSimple_SortsSnapshot(queries) ==
  /\ engineType = "simple"
  /\ \E query \in queries :
       LET out == SimpleSearch(options, entities, query)
       IN  /\ stats' = Some(out.stats)
           /\ ret' = [op |-> "search", query |-> query, status |-> "ok",
                      results |-> out.results]
           /\ entities' = [i \in 1..Len(out.results) |-> entities[out.results[i].entity]]
  /\ UNCHANGED <<engineType, options, fuse, everLoaded, sf, parserVars>>

SearchSimple(queries) ==
  /\ engineType = "simple"
  /\ \E query \in queries :
       LET out == SimpleSearch(options, entities, query)
       IN  /\ stats' = Some(out.stats)
           /\ ret' = [op |-> "search", query |-> query, status |-> "ok",
                      results |-> out.results]
  /\ UNCHANGED <<engineType, options, entities, fuse, everLoaded, sf, parserVars>>

\* if (!this.fuse) throw
fuzzyNotLoaded(index) == index = Undefined

SearchFuzzyNotLoaded(queries) ==
  /\ engineType = "fuzzy"
  /\ fuzzyNotLoaded(fuse)
  /\ \E query \in queries :
       ret' = [op |-> "search", query |-> query, status |-> "EntitiesNotLoaded"]
  /\ UNCHANGED <<engineType, options, entities, fuse, stats, everLoaded, sf, parserVars>>

SearchFuzzy(queries) ==
  /\ engineType = "fuzzy"
  /\ ~fuzzyNotLoaded(fuse)
  /\ \E query \in queries :
       LET fuseResults == Get(fuse).found[query.term]
           out == FuzzySearch(options, entities, Get(fuse).docs, query, fuseResults)
       IN  /\ stats' = Some(out.stats)
           /\ ret' = [op |-> "search", query |-> query, status |-> "ok",
                      results |-> out.results]
  /\ UNCHANGED <<engineType, options, entities, fuse, everLoaded, sf, parserVars>>

AISearch_ReturnsEmpty(query) ==
  [op |-> "search", query |-> query, status |-> "ok", results |-> <<>>]

\* AISearchEngine.search: throw new Error('AI search not yet implemented (Phase 3)')
AISearch(query) == [op |-> "search", query |-> query, status |-> "NotImplemented"]

SearchAI(queries) ==
  /\ engineType = "ai"
  /\ \E query \in queries : ret' = AISearch(query)
  /\ UNCHANGED <<engineType, options, entities, fuse, stats, everLoaded, sf, parserVars>>

-----------------------------------------------------------------------------
(* scoreField applied on its own to normalized strings *)

Strs == SeqsUpTo({"a", "b"}, MaxStrLen)

ApplyScoreField ==
  /\ \E fieldValue \in Strs \cup {S_draw}, searchTerm \in Strs \cup {S_dr, S_raw},
        exactMatch \in BOOLEAN :
       sf' = [applied |-> TRUE, fieldValue |-> fieldValue, searchTerm |-> searchTerm,
              exactMatch |-> exactMatch,
              out |-> scoreField(fieldValue, searchTerm, "name", exactMatch)]
  /\ UNCHANGED <<engineVars, parserVars>>

-----------------------------------------------------------------------------
(* The Doxygen XML directory.  A document is held as what XMLParser.parse  *)
(* makes of it; an attribute or element that is absent is "" (or <<>> for  *)
(* a name), which is as falsy as undefined.                                *)

N_index == <<"i", "n", "d", "e", "x", ".", "x", "m", "l">>
N_xindex == <<"x", "i", "n", "d", "e", "x", ".", "x", "m", "l">>
N_a == <<"a", ".", "x", "m", "l">>
N_indexTxt == <<"i", "n", "d", "e", "x", ".", "t", "x", "t">>
S_dotXml == <<".", "x", "m", "l">>
S_secret == <<"s", "e", "c", "r", "e", "t">>
S_count == <<"c", "o", "u", "n", "t">>
S_Hidden == <<"H", "i", "d", "d", "e", "n">>
S_run == <<"r", "u", "n">>
S_utilH == <<"u", "t", "i", "l", ".", "h">>

xmlPath == <<"d">>

\* path.join(dir, entry)
join(dir, entry) == dir \o <<"/">> \o entry

\* a memberdef node
MemberDef(kind, id, prot, name) ==
  [kind |-> kind, id |-> id, prot |-> prot, compoundname |-> <<>>, name |-> name,
   qualifiedname |-> <<>>, sectiondef |-> <<>>]

\* a compounddef node; sectiondef is the list of its sections' memberdef lists
CompoundDef(kind, id, prot, compoundname, sectiondef) ==
  [kind |-> kind, id |-> id, prot |-> prot, compoundname |-> compoundname,
   name |-> <<>>, qualifiedname |-> <<>>, sectiondef |-> sectiondef]

\* the compounds an index document can list: refid and kind
CompoundPool ==
  { [refid |-> "classns_1_1Widget", kind |-> "class"],
    [refid |-> "classHidden", kind |-> "class"],
    [refid |-> "namespacens", kind |-> "namespace"],
    [refid |-> "util_8h", kind |-> "file"],
    [refid |-> "classBroken", kind |-> "class"],
    [refid |-> "structGone", kind |-> "struct"],
    [refid |-> "structTorn", kind |-> "struct"] }

\* the document <refid>.xml: unreadable, rejected by the XML parser, or parsed
CompoundDoc(refid) ==
  CASE refid = "classns_1_1Widget" ->
         [state |-> "ok",
          compounddef |->
            CompoundDef("class", "classns_1_1Widget", "public", S_nsWidget,
              << <<MemberDef("function", "classns_1_1Widget_1a1", "public", S_draw),
                   MemberDef("variable", "classns_1_1Widget_1a2", "public", S_count)>>,
                 <<MemberDef("function", "classns_1_1Widget_1a3", "private", S_secret)>> >>)]
    [] refid = "classHidden" ->
         [state |-> "ok",
          compounddef |->
            CompoundDef("class", "classHidden", "private", S_Hidden,
              << <<MemberDef("function", "classHidden_1a1", "public", S_run)>> >>)]
    [] refid = "namespacens" ->
         [state |-> "ok",
          compounddef |->
            CompoundDef("namespace", "namespacens", "", S_ns,
              << <<MemberDef("function", "namespacens_1a2", "public", S_helper)>> >>)]
    [] refid = "util_8h" ->
         [state |-> "ok",
          compounddef |->
            CompoundDef("file", "util_8h", "", S_utilH,
              << <<MemberDef("function", "util_8h_1a1", "public", S_helper)>> >>)]
    [] refid = "classBroken" -> [state |-> "nocompounddef"]
    [] refid = "structGone" -> [state |-> "unreadable"]
    [] refid = "structTorn" -> [state |-> "malformed"]

\* what readdir gives: it fails, or the entries of the directory in order
Listings ==
  { [ok |-> FALSE, entries |-> <<>>],
    [ok |-> TRUE, entries |-> <<N_a, N_index>>],
    [ok |-> TRUE, entries |-> <<N_xindex>>],
    [ok |-> TRUE, entries |-> <<N_a>>],
    [ok |-> TRUE, entries |-> <<N_indexTxt, N_a>>] }

\* the document parse takes for the index: unreadable, without the doxygenindex
\* root, or listing compounds
IndexDocs ==
  {[state |-> "unreadable", compounds |-> <<>>], [state |-> "noroot", compounds |-> <<>>]}
    \cup [state : {"ok"}, compounds : SeqsUpTo(CompoundPool, MaxCompounds)]

\* the directories parse is called on; with no document to take for the index,
\* there is none to read
FileSystems ==
  {f \in [listing : Listings, index : IndexDocs] :
     \/ \E i \in 1..Len(f.listing.entries) : endsWith(f.listing.entries[i], N_index)
     \/ f.index.state = "unreadable"}

\* the options a DoxygenParser is constructed with
ParseOptionInputs ==
  [entityTypes : {Undefined, Some(<<>>), Some(<<"class">>), Some(<<"function">>),
                  Some(<<"method">>), Some(<<"class", "method">>)},
   includePrivate : {Undefined, Some(TRUE)},
   parallel : {Undefined, Some(TRUE)}]

-----------------------------------------------------------------------------
(* Entity builders *)

\* a || b on strings
orElse(a, b) == IF a # <<>> THEN a ELSE b

extractVisibility(xmlNode) ==
  IF xmlNode.prot \in {"public", "protected", "private"}
    THEN Some(xmlNode.prot)
    ELSE Undefined

\* EntityBuilder.buildBase; the kind is the builder's to add
buildBase(xmlNode) ==
  [id |-> xmlNode.id,
   name |-> orElse(xmlNode.compoundname, xmlNode.name),
   qualifiedName |-> orElse(xmlNode.qualifiedname,
                            orElse(xmlNode.compoundname, xmlNode.name)),
   briefDescription |-> <<>>,
   visibility |-> extractVisibility(xmlNode)]

EntityBuilderKinds == {"class", "struct", "function", "namespace", "enum"}

\* EntityBuilderFactory.getBuilder throws for every other kind
hasBuilder(kind) == kind \in EntityBuilderKinds

build_MethodUnderAnyParent(xmlNode, parent) ==
  LET base == buildBase(xmlNode)
      kind ==
        CASE xmlNode.kind \in {"class", "struct"} -> xmlNode.kind
          [] xmlNode.kind = "function" ->
               IF parent # Undefined THEN "method" ELSE "function"
          [] xmlNode.kind = "namespace" -> "namespace"
          [] xmlNode.kind = "enum" -> "enum"
  IN  [id |-> base.id, name |-> base.name, qualifiedName |-> base.qualifiedName,
       briefDescription |-> base.briefDescription, visibility |-> base.visibility,
       kind |-> kind,
       parentClass |-> IF kind = "method" THEN Some(Get(parent).qualifiedName)
                       ELSE Undefined]

\* builder.build(xmlNode, parent); parent is {} or {the container entity}
build(xmlNode, parent) ==
  LET base == buildBase(xmlNode)
      kind ==
        CASE xmlNode.kind \in {"class", "struct"} -> xmlNode.kind
          [] xmlNode.kind = "function" ->
               IF parent # Undefined /\ Get(parent).kind \in {"class", "struct"}
                 THEN "method" ELSE "function"
          [] xmlNode.kind = "namespace" -> "namespace"
          [] xmlNode.kind = "enum" -> "enum"
  IN  [id |-> base.id, name |-> base.name, qualifiedName |-> base.qualifiedName,
       briefDescription |-> base.briefDescription, visibility |-> base.visibility,
       kind |-> kind,
       parentClass |-> IF kind = "method" THEN Some(Get(parent).qualifiedName)
                       ELSE Undefined]

-----------------------------------------------------------------------------
(* DoxygenParser *)

\* mergeOptions: entityTypes || undefined, includePrivate ?? false,
\* parallel ?? false
mergeOptions(given) ==
  [entityTypes |-> given.entityTypes,
   includePrivate |-> IF given.includePrivate = Undefined THEN FALSE
                      ELSE Get(given.includePrivate),
   parallel |-> IF given.parallel = Undefined THEN FALSE ELSE Get(given.parallel)]

inList(list, x) == \E k \in 1..Len(list) : list[k] = x

shouldIncludeEntity_IgnoresVisibility(opts, entity) ==
  ~(opts.entityTypes # Undefined /\ ~inList(Get(opts.entityTypes), entity.kind))

shouldIncludeEntity(opts, entity) ==
  IF opts.entityTypes # Undefined /\ ~inList(Get(opts.entityTypes), entity.kind)
    THEN FALSE
  ELSE IF ~opts.includePrivate /\ entity.visibility = Some("private")
    THEN FALSE
  ELSE TRUE

typeMap(kind) ==
  CASE kind = "class" -> <<"class", "method">>
    [] kind = "struct" -> <<"struct", "method">>
    [] kind = "namespace" -> <<"namespace">>
    [] kind = "file" -> <<"function">>
    [] kind = "enum" -> <<"enum">>
    [] OTHER -> <<>>

shouldLoadCompound(opts, kind) ==
  \E k \in 1..Len(typeMap(kind)) :
    opts.entityTypes = Undefined \/ inList(Get(opts.entityTypes), typeMap(kind)[k])

filterCompounds(opts, compounds) ==
  IF opts.entityTypes = Undefined \/ Len(Get(opts.entityTypes)) = 0
    THEN compounds
    ELSE LET keep(c) == shouldLoadCompound(opts, c.kind)
         IN  SelectSeq(compounds, keep)

\* findDoxygenFiles on a directory that could be listed
findDoxygenFiles(entries) ==
  LET isXml(e) == endsWith(e, S_dotXml)
      xml == SelectSeq(entries, isXml)
  IN  [i \in 1..Len(xml) |-> join(xmlPath, xml[i])]

\* files.find(f => f.endsWith('index.xml')): <<>> or <<the first such path>>
findIndexFile(paths) ==
  LET isIndex(f) == endsWith(f, N_index)
      hits == SelectSeq(paths, isIndex)
  IN  IF hits = <<>> THEN <<>> ELSE <<Head(hits)>>

RECURSIVE flatten(_)
flatten(lists) == IF lists = <<>> THEN <<>> ELSE Head(lists) \o flatten(Tail(lists))

extractMembers_NoWarnings(compoundDef, parent) ==
  LET memberDefs == flatten(compoundDef.sectiondef)
      buildable(m) == hasBuilder(m.kind)
      good == SelectSeq(memberDefs, buildable)
  IN  [members |-> [i \in 1..Len(good) |-> build(good[i], Some(parent))],
       warnings |-> <<>>]

\* extractMembers: the member entities built, and the warnings pushed, in order
extractMembers(compoundDef, parent) ==
  LET memberDefs == flatten(compoundDef.sectiondef)
      buildable(m) == hasBuilder(m.kind)
      failed(m) == ~hasBuilder(m.kind)
      good == SelectSeq(memberDefs, buildable)
      bad == SelectSeq(memberDefs, failed)
  IN  [members |-> [i \in 1..Len(good) |-> build(good[i], Some(parent))],
       warnings |-> [i \in 1..Len(bad) |->
                       [file |-> <<parent.id, ".xml">>, entityId |-> Some(bad[i].id),
                        message |-> "Failed to parse member",
                        severity |-> "warning"]]]

parseCompoundFile_MembersFirst(opts, compound) ==
  LET doc == CompoundDoc(compound.refid)
  IN  IF doc.state # "ok" \/ ~hasBuilder(doc.compounddef.kind)
        THEN [threw |-> TRUE, entities |-> <<>>, warnings |-> <<>>]
        ELSE
          LET mainEntity == build(doc.compounddef, Undefined)
              ext == extractMembers(doc.compounddef, mainEntity)
              include(e) == shouldIncludeEntity(opts, e)
          IN  [threw |-> FALSE,
               entities |-> SelectSeq(ext.members, include)
                              \o (IF include(mainEntity) THEN <<mainEntity>> ELSE <<>>),
               warnings |-> ext.warnings]

\* parseCompoundFile once the read has settled: it throws, or returns entities
\* after pushing the members' warnings
parseCompoundFile(opts, compound) ==
  LET doc == CompoundDoc(compound.refid)
  IN  IF doc.state # "ok" \/ ~hasBuilder(doc.compounddef.kind)
        THEN [threw |-> TRUE, entities |-> <<>>, warnings |-> <<>>]
        ELSE
          LET mainEntity == build(doc.compounddef, Undefined)
              ext == extractMembers(doc.compounddef, mainEntity)
              include(e) == shouldIncludeEntity(opts, e)
          IN  [threw |-> FALSE,
               entities |-> (IF include(mainEntity) THEN <<mainEntity>> ELSE <<>>)
                              \o SelectSeq(ext.members, include),
               warnings |-> ext.warnings]

compoundError(compound) ==
  [file |-> <<compound.refid, ".xml">>, entityId |-> Undefined,
   message |-> "Failed to parse compound", severity |-> "error"]

\* the ParseResult parse builds
parseResult(fileList, ents, errs) ==
  [entities |-> ents,
   metadata |-> [totalFiles |-> Len(fileList), totalEntities |-> Len(ents),
                 fromCache |-> FALSE],
   errors |-> errs]

NoBuild == [applied |-> FALSE]

\* the parse calls that may run on one parser at a time
OverlapCalls == {1, 2}

\* a parser on which parse has not been called: this.errors names the array of
\* its field initializer
NoOverlap ==
  [heap |-> << <<>> >>, cur |-> 1,
   calls |-> [c \in OverlapCalls |->
                [pc |-> "idle", compounds |-> <<>>, toLoad |-> <<>>, done |-> 0,
                 pentities |-> <<>>, raised |-> <<>>, result |-> Undefined]]]

nextReads_AllWhenParallel(opts, compounds, handled) ==
  IF opts.parallel THEN (handled + 1)..Len(compounds)
  ELSE IF handled < Len(compounds) THEN {handled + 1} ELSE {}

\* parseCompounds' loop: the reads it has started and not yet seen settle once
\* it has handled the first `handled` compounds; it awaits each parseCompoundFile
\* before the next turn and never consults opts.parallel
nextReads(opts, compounds, handled) ==
  IF handled < Len(compounds) THEN {handled + 1} ELSE {}

\* new DoxygenParser(given)
InitParser(inputs) ==
  /\ \E given \in inputs : popts = mergeOptions(given)
  /\ fs = [listing |-> [ok |-> FALSE, entries |-> <<>>],
           index |-> [state |-> "unreadable", compounds |-> <<>>]]
  /\ pc = "idle"
  /\ files = <<>>
  /\ toLoad = <<>>
  /\ done = 0
  /\ pentities = <<>>
  /\ errors = <<>>
  /\ presult = Undefined
  /\ built = NoBuild
  /\ reading = {}
  /\ cmd = [state |-> "idle"]
  /\ overlap = NoOverlap

\* parse(xmlPath) is called: it empties this.errors and waits for the listing
ParseCall ==
  /\ pc \in {"idle", "done", "failed"}
  /\ fs' \in FileSystems
  /\ errors' = <<>>
  /\ pc' = "readdir"
  /\ files' = <<>>
  /\ toLoad' = <<>>
  /\ done' = 0
  /\ pentities' = <<>>
  /\ presult' = Undefined
  /\ UNCHANGED <<engineVars, sf, overlap, cmd, reading, built, popts>>

\* the listing fails, or no path ends in index.xml: parse throws
FindFilesThrows ==
  /\ pc = "readdir"
  /\ \/ ~fs.listing.ok
     \/ findIndexFile(findDoxygenFiles(fs.listing.entries)) = <<>>
  /\ pc' = "failed"
  /\ UNCHANGED <<engineVars, sf, overlap, cmd, reading, built, fs, popts, files, toLoad,
                 done, pentities, errors, presult>>

\* the listing arrives and holds an index file: parseIndexFile starts reading it
FindFilesReturns ==
  /\ pc = "readdir"
  /\ fs.listing.ok
  /\ findIndexFile(findDoxygenFiles(fs.listing.entries)) # <<>>
  /\ files' = findDoxygenFiles(fs.listing.entries)
  /\ pc' = "readIndex"
  /\ reading' = {0}
  /\ UNCHANGED <<engineVars, sf, overlap, cmd, built, fs, popts, toLoad, done,
                 pentities, errors, presult>>

\* the index cannot be read, or has no doxygenindex root: parse throws
ParseIndexThrows ==
  /\ pc = "readIndex"
  /\ fs.index.state # "ok"
  /\ pc' = "failed"
  /\ reading' = {}
  /\ UNCHANGED <<engineVars, sf, overlap, cmd, built, fs, popts, files, toLoad, done,
                 pentities, errors, presult>>

\* the index is parsed and its compounds filtered; with none to load parse returns
ParseIndexReturns ==
  /\ pc = "readIndex"
  /\ fs.index.state = "ok"
  /\ LET compoundsToLoad == filterCompounds(popts, fs.index.compounds)
     IN  /\ toLoad' = compoundsToLoad
         /\ IF compoundsToLoad = <<>>
              THEN /\ pc' = "done"
                   /\ presult' = Some(parseResult(files, <<>>, errors))
              ELSE /\ pc' = "readCompound"
                   /\ presult' = presult
         /\ reading' = nextReads(popts, compoundsToLoad, 0)
  /\ UNCHANGED <<engineVars, sf, overlap, cmd, built, fs, popts, files, done, pentities,
                 errors>>

ParseCompound_FatalOnThrow ==
  /\ pc = "readCompound"
  /\ LET compound == toLoad[done + 1]
         out == parseCompoundFile(popts, compound)
         ents == pentities \o out.entities
         errs == errors \o out.warnings
     IN  /\ pentities' = ents
         /\ errors' = errs
         /\ done' = done + 1
         /\ IF out.threw
              THEN /\ pc' = "failed"
                   /\ presult' = presult
                   /\ reading' = {}
              ELSE IF done + 1 = Len(toLoad)
                THEN /\ pc' = "done"
                     /\ presult' = Some(parseResult(files, ents, errs))
                     /\ reading' = {}
                ELSE /\ pc' = "readCompound"
                     /\ presult' = presult
                     /\ reading' = {done + 2}
  /\ UNCHANGED <<engineVars, sf, overlap, cmd, built, fs, popts, files, toLoad>>

\* one turn of parseCompounds' loop, from the settling of the compound's read; after
\* the last compound parse returns
ParseCompound ==
  /\ pc = "readCompound"
  /\ LET compound == toLoad[done + 1]
         out == parseCompoundFile(popts, compound)
         ents == pentities \o out.entities
         errs == IF out.threw THEN Append(errors, compoundError(compound))
                 ELSE errors \o out.warnings
     IN  /\ pentities' = ents
         /\ errors' = errs
         /\ done' = done + 1
         /\ IF done + 1 = Len(toLoad)
              THEN /\ pc' = "done"
                   /\ presult' = Some(parseResult(files, ents, errs))
              ELSE /\ pc' = "readCompound"
                   /\ presult' = presult
         /\ reading' = nextReads(popts, toLoad, done + 1)
  /\ UNCHANGED <<engineVars, sf, overlap, cmd, built, fs, popts, files, toLoad>>

-----------------------------------------------------------------------------
(* The function builder applied on its own *)

\* memberdef nodes of kind function
FunctionNodes ==
  {MemberDef("function", id, prot, name) :
     id \in {"", "f_1a1", "f_1a2"}, prot \in {"", "public", "protected", "private"},
     name \in {<<>>, S_draw, S_helper}}

\* the parents build is given: none, or a container entity of any kind
ParentEntities ==
  {Undefined} \cup
  {Some(build(CompoundDef(kind, "c_1", "public", name, <<>>), Undefined)) :
     kind \in {"class", "struct", "namespace", "enum"}, name \in {<<>>, S_nsWidget}}

ApplyBuild ==
  /\ \E xmlNode \in FunctionNodes, parent \in ParentEntities :
       built' = [applied |-> TRUE, xmlNode |-> xmlNode, parent |-> parent,
                 out |-> build(xmlNode, parent)]
  /\ UNCHANGED <<engineVars, sf, overlap, cmd, reading, fs, popts, pc, files, toLoad,
                 done, pentities, errors, presult>>

-----------------------------------------------------------------------------
(* Specifications *)

\* an engine beside a parser that is never called
InitSearch(types) == EngineInit(types) /\ InitParser({[entityTypes |-> Undefined,
                                                        includePrivate |-> Undefined,
                                                        parallel |-> Undefined]})

\* the simple engine under every match mode
NextSimple == Configure(MatchOptions) \/ LoadEntities \/ SearchSimple(MatchQueries)

SimpleSpec == InitSearch({"simple"}) /\ [][NextSimple]_vars

\* the fuzzy engine
NextFuzzy ==
  \/ Configure(LimitOptions)
  \/ LoadEntities
  \/ SearchFuzzyNotLoaded(LimitQueries)
  \/ SearchFuzzy(LimitQueries)

FuzzySpec == InitSearch({"fuzzy"}) /\ [][NextFuzzy]_vars

\* the semantic engine
NextAI == Configure(MatchOptions) \/ LoadEntities \/ SearchAI(MatchQueries)

AISpec == InitSearch({"ai"}) /\ [][NextAI]_vars

\* the simple and the fuzzy engine under every result limit
NextLimit ==
  \/ Configure(LimitOptions)
  \/ LoadEntities
  \/ SearchSimple(LimitQueries)
  \/ SearchFuzzyNotLoaded(LimitQueries)
  \/ SearchFuzzy(LimitQueries)

LimitSpec == InitSearch({"simple", "fuzzy"}) /\ [][NextLimit]_vars

ScoreFieldSpec == InitSearch({"simple"}) /\ [][ApplyScoreField]_vars

\* one parser, called again and again on any directory
NextParse ==
  \/ ParseCall
  \/ FindFilesThrows
  \/ FindFilesReturns
  \/ ParseIndexThrows
  \/ ParseIndexReturns
  \/ ParseCompound

InitParse == EngineInit({"simple"}) /\ InitParser(ParseOptionInputs)

ParseSpec == InitParse /\ [][NextParse]_vars

\* the simple engine on the snapshot of the four entities, in any order
ScenarioSnapshots == {s \in SeqsUpTo(EntityPool, Cardinality(EntityPool)) :
                        Len(s) = Cardinality(EntityPool) /\ Distinct(s)}

S_WIDGET == <<"W", "I", "D", "G", "E", "T">>

S_w == <<"w">>

ScenarioQueries ==
  [term : {S_widget, S_Widget, S_WIDGET, S_dr, S_w}, entityTypes : {Undefined},
   exactMatch : {Undefined, Some(FALSE), Some(TRUE)}, maxResults : {Undefined}]

ScenarioOptions ==
  [caseSensitive : BOOLEAN] \cup [includeDescriptions : BOOLEAN]
    \cup [enableHighlights : BOOLEAN]

InitScenario == InitSearch({"simple"})

NextScenario ==
  \/ Configure(ScenarioOptions)
  \/ LoadEntitiesFrom(ScenarioSnapshots)
  \/ SearchSimple(ScenarioQueries)

ScenarioSpec == InitScenario /\ [][NextScenario]_vars

\* the function builder on any memberdef under any parent
InitBuild == InitSearch({"simple"})

BuildSpec == InitBuild /\ [][ApplyBuild]_vars

-----------------------------------------------------------------------------
(* Properties of the search engines *)

\* the most recent call was a search that returned a list
Returned == ret.op = "search" /\ ret.status = "ok"

\* C1: the list a Simple search returns is in non-increasing relevance order, and
\* two results of equal relevance appear in the order their entities have in the
\* loaded snapshot.
C1_SortedAndStable ==
  Returned =>
    \A i, j \in 1..Len(ret.results) :
      i < j =>
        /\ ret.results[i].relevance >= ret.results[j].relevance
        /\ ret.results[i].relevance = ret.results[j].relevance
             => ret.results[i].entity < ret.results[j].entity

\* a returned list holding a tie below 1.0 and one holding a reordered pair exist;
\* the witness is the tie
C1_Witness ==
  /\ Returned
  /\ Len(ret.results) = 2
  /\ ret.results[1].relevance = ret.results[2].relevance
  /\ ret.results[1].relevance < RelOne
  /\ ret.results[1].entity < ret.results[2].entity

\* the weighted sum of a result's matched fields, in the units of RelOne
C2_WeightedSum(matchedFields) ==
  LET w(m) == CASE m.fieldName = "name" -> 10
                [] m.fieldName = "qualifiedName" -> 8
                [] m.fieldName = "briefDescription" -> 3
      RECURSIVE sum(_)
      sum(k) == IF k = 0 THEN 0 ELSE matchedFields[k].score * w(matchedFields[k]) + sum(k - 1)
  IN  sum(Len(matchedFields))

\* C2: the relevance of every Simple result is min(1.0, 1.0 * s_name +
\* 0.8 * s_qualifiedName + 0.3 * s_briefDescription) over the fields that matched,
\* it is greater than 0 and at most 1.0, and every result has a matched field, each
\* of them a field of the entity that contains the term.
C2_RelevanceClamped ==
  Returned =>
    \A i \in 1..Len(ret.results) :
      LET r == ret.results[i]
          term == IF options.caseSensitive THEN ret.query.term
                  ELSE toLowerCase(ret.query.term)
      IN  /\ r.matchedFields # <<>>
          /\ r.relevance = Min(RelOne, C2_WeightedSum(r.matchedFields))
          /\ r.relevance > 0
          /\ r.relevance <= RelOne
          /\ \A k \in 1..Len(r.matchedFields) :
               LET value == entities[r.entity][r.matchedFields[k].fieldName]
               IN  includes(IF options.caseSensitive THEN value ELSE toLowerCase(value),
                            term)

\* a result whose weighted sum is above 1.0, and so is clamped
C2_Witness ==
  /\ Returned
  /\ \E i \in 1..Len(ret.results) :
       /\ C2_WeightedSum(ret.results[i].matchedFields) > RelOne
       /\ Len(ret.results[i].matchedFields) = 3

\* C3 as stated, for every call of scoreField: tier exact with score 1.0 when field
\* and term are equal; otherwise tier prefix with score 0.9 when the field starts
\* with the term; otherwise tier substring with score
\* 0.5 + 0.3 * (1 - position / fieldLength) when the field contains the term;
\* otherwise no match.
C3_ScoreFieldTiersAnyMode ==
  sf.applied =>
    LET f == sf.fieldValue
        t == sf.searchTerm
        pos == indexOf(f, t)
    IN  /\ f = t =>
             sf.out = <<[fieldName |-> "name", matchType |-> "exact", score |-> ScoreOne]>>
        /\ (f # t /\ startsWith(f, t)) =>
             sf.out = <<[fieldName |-> "name", matchType |-> "prefix",
                         score |-> (9 * ScoreOne) \div 10]>>
        /\ (f # t /\ ~startsWith(f, t) /\ pos # -1) =>
             /\ Len(sf.out) = 1
             /\ sf.out[1].matchType = "substring"
             /\ sf.out[1].score * 10 * Len(f) = ScoreOne * (5 * Len(f) + 3 * (Len(f) - pos))
        /\ pos = -1 => sf.out = <<>>

\* C3 amended: scoreField returns tier exact with score 1.0 when field and term are
\* equal; otherwise no match when its exactMatch argument is true; otherwise tier
\* prefix with score 0.9 when the field starts with the term; otherwise tier
\* substring with score
\* 0.5 + 0.3 * (1 - position / fieldLength) when the field contains the term, a
\* score within [0.5, 0.8] that is strictly smaller than that of an earlier
\* first match in a field of the same length; otherwise no match.
C3_ScoreFieldTiers ==
  sf.applied =>
    LET f == sf.fieldValue
        t == sf.searchTerm
        pos == indexOf(f, t)
    IN  /\ f = t =>
             sf.out = <<[fieldName |-> "name", matchType |-> "exact", score |-> ScoreOne]>>
        /\ (f # t /\ sf.exactMatch) => sf.out = <<>>
        /\ (f # t /\ ~sf.exactMatch /\ startsWith(f, t)) =>
             sf.out = <<[fieldName |-> "name", matchType |-> "prefix",
                         score |-> (9 * ScoreOne) \div 10]>>
        /\ (f # t /\ ~sf.exactMatch /\ ~startsWith(f, t) /\ pos # -1) =>
             /\ Len(sf.out) = 1
             /\ sf.out[1].matchType = "substring"
             /\ sf.out[1].score * 10 * Len(f) = ScoreOne * (5 * Len(f) + 3 * (Len(f) - pos))
             /\ 10 * sf.out[1].score >= 5 * ScoreOne
             /\ 10 * sf.out[1].score <= 8 * ScoreOne
             /\ \A g \in Strs \cup {S_draw} :
                  LET other == scoreField(g, t, "name", FALSE)
                  IN  (/\ Len(g) = Len(f)
                       /\ other # <<>>
                       /\ other[1].matchType = "substring"
                       /\ indexOf(g, t) < pos)
                        => other[1].score > sf.out[1].score
        /\ pos = -1 => sf.out = <<>>

\* "raw" against "draw": a substring match at position 1 of 4
C3_Witness ==
  /\ sf.applied
  /\ sf.fieldValue = S_draw
  /\ sf.searchTerm = S_raw
  /\ ~sf.exactMatch
  /\ Len(sf.out) = 1
  /\ sf.out[1].matchType = "substring"
  /\ 40 * sf.out[1].score = 29 * ScoreOne

\* C4: when exact-match-only is requested, per query or through
\* configure({exactMatch: true}), every matched field of every Simple result has
\* matchType exact.
C4_ExactOnlyWhenRequested ==
  (Returned /\ (queryExactMatch(ret.query) \/ options.exactMatch)) =>
    \A i \in 1..Len(ret.results) :
      \A k \in 1..Len(ret.results[i].matchedFields) :
        ret.results[i].matchedFields[k].matchType = "exact"

\* C5 as stated: the number of results never exceeds the smaller of the per-query
\* limit and options.maxResults when a per-query limit is given, and never
\* exceeds options.maxResults when none is given.
C5_CappedAtSmaller ==
  Returned =>
    Len(ret.results) <=
      (IF ret.query.maxResults # Undefined
         THEN Min(Get(ret.query.maxResults), options.maxResults)
         ELSE options.maxResults)

\* C5 amended: the number of results never exceeds the per-query limit when a
\* positive one is given, and never exceeds options.maxResults when the query
\* gives no limit or the limit 0.
C5_CappedAtEffectiveLimit ==
  Returned =>
    Len(ret.results) <=
      (IF ret.query.maxResults # Undefined /\ Get(ret.query.maxResults) > 0
         THEN Get(ret.query.maxResults)
         ELSE options.maxResults)

\* a search whose per-query limit is above options.maxResults and is the limit applied
C5_Witness ==
  /\ Returned
  /\ ret.query.maxResults # Undefined
  /\ Get(ret.query.maxResults) > options.maxResults
  /\ Len(ret.results) = Get(ret.query.maxResults)
  /\ Get(stats).matchedEntities >= Len(ret.results)

\* C6: a search on the fuzzy engine fails with the load-state error, and returns
\* no list, exactly when no loadEntities has been called before it.
C6_FuzzyNeedsLoad ==
  ret.op = "search" =>
    IF everLoaded
      THEN ret.status = "ok" /\ "results" \in DOMAIN ret
      ELSE ret.status = "EntitiesNotLoaded" /\ "results" \notin DOMAIN ret

\* a search that failed although configure calls preceded it
C6_Witness ==
  /\ ret.op = "search"
  /\ ret.status = "EntitiesNotLoaded"
  /\ options # getDefaultOptions
  /\ stats = Undefined

\* C7: every search on the semantic engine fails with the not-implemented error
\* and returns no list.
C7_AIAlwaysFails ==
  ret.op = "search" => ret.status = "NotImplemented" /\ "results" \notin DOMAIN ret

\* a search on a loaded, configured semantic engine
C7_Witness ==
  /\ engineType = "ai"
  /\ ret.op = "search"
  /\ everLoaded
  /\ entities # <<>>
  /\ options # getDefaultOptions

-----------------------------------------------------------------------------
(* Properties of DoxygenParser, under ParseSpec *)

\* the ids of the entities of a list
entityIds(ents) == {ents[i].id : i \in 1..Len(ents)}

\* a retained compound whose document cannot be read, is rejected by the XML
\* parser, or has no compounddef
documentFails(compound) == CompoundDoc(compound.refid).state # "ok"

\* the members of a sound compound document that the parser's options ask for
requestedMembers(opts, compound) ==
  LET def == CompoundDoc(compound.refid).compounddef
      all == flatten(def.sectiondef)
      kindOf(m) == IF def.kind \in {"class", "struct"} THEN "method" ELSE "function"
      asked(m) ==
        /\ m.kind = "function"
        /\ opts.entityTypes = Undefined \/ inList(Get(opts.entityTypes), kindOf(m))
        /\ opts.includePrivate \/ m.prot # "private"
  IN  SelectSeq(all, asked)

\* C8: when parse returns, the error-severity entries of its errors list are one
\* per retained compound whose document fails to parse or is structurally invalid,
\* in compound order; such a compound contributes no entity, and the requested
\* members of every other retained compound are among the entities.
C8_OneErrorPerFailedDocument ==
  presult # Undefined =>
    LET r == Get(presult)
        isError(e) == e.severity = "error"
        errs == SelectSeq(r.errors, isError)
        failing == SelectSeq(toLoad, documentFails)
    IN  /\ Len(errs) = Len(failing)
        /\ \A i \in 1..Len(failing) : errs[i].file = <<failing[i].refid, ".xml">>
        /\ \A i \in 1..Len(toLoad) :
             IF documentFails(toLoad[i])
               THEN toLoad[i].refid \notin entityIds(r.entities)
               ELSE \A j \in 1..Len(requestedMembers(popts, toLoad[i])) :
                      requestedMembers(popts, toLoad[i])[j].id \in entityIds(r.entities)

\* C9: once parse has settled, it has thrown and returned no ParseResult whenever
\* the directory cannot be listed, holds no index.xml, or its index document
\* cannot be read or lacks the doxygenindex root.
C9_FatalWithoutIndex ==
  (/\ pc \in {"done", "failed"}
   /\ \/ ~fs.listing.ok
      \/ ~inList(fs.listing.entries, N_index)
      \/ fs.index.state # "ok")
    => pc = "failed" /\ presult = Undefined

\* C10: every entity of a ParseResult has a kind among the requested entityTypes
\* when a set is requested, and is not private unless includePrivate is set;
\* a member is judged on its own, whatever became of its container.
C10_OnlyRequestedEntities ==
  presult # Undefined =>
    \A i \in 1..Len(Get(presult).entities) :
      LET entity == Get(presult).entities[i]
      IN  /\ popts.entityTypes # Undefined => inList(Get(popts.entityTypes), entity.kind)
          /\ ~popts.includePrivate => entity.visibility # Some("private")

\* C10 witness: classes and methods are requested without private entities, and
\* the result holds the public method of a private class that it leaves out,
\* and a public class without its private method.
C10_Witness ==
  /\ presult # Undefined
  /\ popts.entityTypes = Some(<<"class", "method">>)
  /\ ~popts.includePrivate
  /\ "classHidden_1a1" \in entityIds(Get(presult).entities)
  /\ "classHidden" \notin entityIds(Get(presult).entities)
  /\ "classns_1_1Widget" \in entityIds(Get(presult).entities)
  /\ "classns_1_1Widget_1a3" \notin entityIds(Get(presult).entities)

\* C11: every entity of a ParseResult carries a visibility; an entity built from a
\* node without a prot attribute is public, never without visibility.
C11_VisibilityDefaultsPublic ==
  presult # Undefined =>
    \A i \in 1..Len(Get(presult).entities) :
      /\ Get(presult).entities[i].visibility # Undefined
      /\ Get(presult).entities[i].id = "namespacens"
           => Get(presult).entities[i].visibility = Some("public")

\* C12: no two elements of a ParseResult's entities share an id, also when the
\* index lists the same compound refid more than once.
C12_UniqueIds ==
  presult # Undefined =>
    \A i, j \in 1..Len(Get(presult).entities) :
      i # j => Get(presult).entities[i].id # Get(presult).entities[j].id

\* C13: an entity of the function builder has kind method iff a parent was given
\* and the parent's kind is class or struct, and kind function otherwise; it has a
\* parentClass iff its kind is method, and that is the parent's qualifiedName.
C13_MethodIffClassParent ==
  built.applied =>
    LET classParent == built.parent # Undefined
                         /\ Get(built.parent).kind \in {"class", "struct"}
    IN  /\ built.out.kind = (IF classParent THEN "method" ELSE "function")
        /\ (built.out.parentClass # Undefined) <=> (built.out.kind = "method")
        /\ built.out.kind = "method"
             => built.out.parentClass = Some(Get(built.parent).qualifiedName)

\* a function under a namespace: kind function, no parentClass
C13_Witness ==
  /\ built.applied
  /\ built.parent # Undefined
  /\ Get(built.parent).kind = "namespace"
  /\ built.out.kind = "function"
  /\ built.out.parentClass = Undefined
  /\ built.out.name = S_helper

-----------------------------------------------------------------------------
(* Properties of the Simple engine on the four-entity snapshot, under ScenarioSpec *)

\* a completed case-insensitive, non-exact search for "widget" on the snapshot
\* holding Widget, draw, helper and ns
WidgetSearched ==
  /\ Returned
  /\ Len(entities) = Cardinality(EntityPool)
  /\ ~options.caseSensitive
  /\ toLowerCase(ret.query.term) = S_widget
  /\ ~queryExactMatch(ret.query)

\* the tier at which a field of a result matched: {} or {tier}
tierOf(result, fieldName) ==
  {result.matchedFields[k].matchType :
     k \in {n \in 1..Len(result.matchedFields) :
              result.matchedFields[n].fieldName = fieldName}}

\* C14 as stated: the search returns Widget first with relevance 1.0, reports its
\* qualifiedName as matched at tier exact, and excludes helper, draw and ns.
C14_QualifiedNameExact ==
  WidgetSearched =>
    /\ Len(ret.results) = 1
    /\ entities[ret.results[1].entity].name = S_Widget
    /\ ret.results[1].relevance = RelOne
    /\ tierOf(ret.results[1], "qualifiedName") = {"exact"}

\* C14 amended: the search returns Widget first with relevance 1.0, reports its
\* name as matched at tier exact and its qualifiedName ns::Widget at tier
\* substring, and excludes helper, draw and ns.
C14_NameExactQualifiedSubstring ==
  WidgetSearched =>
    /\ Len(ret.results) = 1
    /\ entities[ret.results[1].entity].name = S_Widget
    /\ ret.results[1].relevance = RelOne
    /\ tierOf(ret.results[1], "name") = {"exact"}
    /\ tierOf(ret.results[1], "qualifiedName") = {"substring"}

\* the search was made with another spelling of the term and Widget not first in
\* the snapshot
C14_Witness ==
  /\ WidgetSearched
  /\ ret.query.term = S_WIDGET
  /\ entities[1].name # S_Widget
  /\ Len(ret.results) = 1
  /\ ret.results[1].relevance = RelOne

-----------------------------------------------------------------------------
(* Properties of the engines' stored state, under LimitSpec *)

\* C15: after a completed search the stored statistics are those of that search:
\* returnedResults is the length of the list returned,
\* returnedResults <= matchedEntities <= totalEntities, totalEntities is the
\* size of the snapshot, cacheHit is false; and a step that is not a completed
\* search (loadEntities, configure, a failed search) leaves them unchanged.
C15_StatsOfLastSearch ==
  /\ [](Returned =>
          /\ stats # Undefined
          /\ Get(stats).returnedResults = Len(ret.results)
          /\ Get(stats).returnedResults <= Get(stats).matchedEntities
          /\ Get(stats).matchedEntities <= Get(stats).totalEntities
          /\ Get(stats).totalEntities = Len(entities)
          /\ Get(stats).cacheHit = FALSE)
  /\ [][~(ret'.op = "search" /\ ret'.status = "ok") => stats' = stats]_vars

\* statistics of an earlier search that cut its list are still stored after a
\* snapshot of another size was loaded
C15_Witness ==
  /\ ret.op = "loadEntities"
  /\ stats # Undefined
  /\ Get(stats).totalEntities # Len(entities)
  /\ Get(stats).returnedResults < Get(stats).matchedEntities

\* the entity a result refers to: the Simple engine's results hold elements of
\* this.entities, the Fuzzy engine's hold documents of its index
resultEntity(r) ==
  IF engineType = "fuzzy" THEN Get(fuse).docs[r.entity] ELSE entities[r.entity]

\* C16: every entity a search returns is an element of the list given to the
\* latest loadEntities; the Fuzzy engine's index holds exactly that list.
C16_OnlyLoadedEntities ==
  Returned =>
    /\ engineType = "fuzzy" => Get(fuse).docs = entities
    /\ \A i \in 1..Len(ret.results) :
         \E k \in 1..Len(entities) : resultEntity(ret.results[i]) = entities[k]

\* a fuzzy search that returned every entity of the loaded list, in another order
C16_Witness ==
  /\ Returned
  /\ engineType = "fuzzy"
  /\ Len(ret.results) = Len(entities)
  /\ Len(entities) > 1
  /\ ret.results[1].entity # 1

WidgetSpellings == {S_widget, S_Widget, S_WIDGET}

\* C18: with caseSensitive off (the default), a Simple search returns, for every
\* other-case spelling of its term, the same entities in the same order with the
\* same relevance and the same matched fields and tiers.
C18_CaseInsensitiveByDefault ==
  (Returned /\ ~options.caseSensitive /\ ret.query.term \in WidgetSpellings) =>
    \A other \in WidgetSpellings :
      LET again == SimpleSearch(options, entities, [ret.query EXCEPT !.term = other]).results
      IN  /\ Len(again) = Len(ret.results)
          /\ \A i \in 1..Len(again) :
               /\ again[i].entity = ret.results[i].entity
               /\ again[i].relevance = ret.results[i].relevance
               /\ again[i].matchedFields = ret.results[i].matchedFields

\* the entity named Widget is found by the term widget on an engine whose
\* caseSensitive option was never set
C18_Witness ==
  /\ Returned
  /\ options.caseSensitive = getDefaultOptions.caseSensitive
  /\ ret.query.term = S_widget
  /\ ret.query.exactMatch = Some(TRUE)
  /\ Len(ret.results) = 1
  /\ entities[ret.results[1].entity].name = S_Widget
  /\ tierOf(ret.results[1], "name") = {"exact"}

\* C19: in a Simple result list, an entity whose name matched at tier prefix has
\* strictly greater relevance than one whose name matched at tier substring.
C19_PrefixOutranksSubstring ==
  Returned =>
    \A i, j \in 1..Len(ret.results) :
      (/\ tierOf(ret.results[i], "name") = {"prefix"}
       /\ tierOf(ret.results[j], "name") = {"substring"})
        => ret.results[i].relevance > ret.results[j].relevance

\* C20: a search, completed or failed, leaves the snapshot with its entities, the
\* options and the index as they were; and a completed search that follows a
\* completed search with the same query, nothing in between, returns the same
\* ordered results (entities, relevance, matchedFields, highlights).
C20_SearchOnlyWritesStats ==
  [][ret'.op = "search" =>
       /\ entities' = entities
       /\ options' = options
       /\ fuse' = fuse
       /\ engineType' = engineType
       /\ (/\ Returned
           /\ ret'.status = "ok"
           /\ ret'.query = ret.query) => ret'.results = ret.results]_vars

\* a completed search that cut its list to one result, with highlights, on a
\* loaded snapshot
C20_Witness ==
  /\ Returned
  /\ Len(ret.results) = 1
  /\ Get(stats).matchedEntities = 2
  /\ ret.results[1].highlights # Undefined
  /\ entities # <<>>


-----------------------------------------------------------------------------
(* Properties of the parser's member handling and ordering, under ParseSpec *)

\* a retained compound whose document is sound and whose container has a builder
compoundBuilds(compound) ==
  /\ ~documentFails(compound)
  /\ hasBuilder(CompoundDoc(compound.refid).compounddef.kind)

\* the ids of the member definitions of a compound that have no builder, in
\* document order; none for a compound that is not built
unbuildableMemberIds(compound) ==
  IF compoundBuilds(compound)
    THEN LET all == flatten(CompoundDoc(compound.refid).compounddef.sectiondef)
             noBuilder(m) == ~hasBuilder(m.kind)
             bad == SelectSeq(all, noBuilder)
         IN  [i \in 1..Len(bad) |-> bad[i].id]
    ELSE <<>>

\* C21: when parse returns, its warning-severity errors are one per member
\* definition that failed to build, in order, each carrying that member's id as
\* entityId; the compound of such a member is not reported with an error-severity
\* entry, and its container and its other members are among the entities when
\* the options ask for them.
C21_OneWarningPerFailedMember ==
  presult # Undefined =>
    LET r == Get(presult)
        isWarning(e) == e.severity = "warning"
        warns == SelectSeq(r.errors, isWarning)
        expected == flatten([i \in 1..Len(toLoad) |-> unbuildableMemberIds(toLoad[i])])
    IN  /\ Len(warns) = Len(expected)
        /\ \A i \in 1..Len(expected) : warns[i].entityId = Some(expected[i])
        /\ \A i \in 1..Len(toLoad) :
             unbuildableMemberIds(toLoad[i]) # <<>> =>
               LET def == CompoundDoc(toLoad[i].refid).compounddef
                   container == build(def, Undefined)
               IN  /\ \A k \in 1..Len(r.errors) :
                         r.errors[k].severity = "error"
                           => r.errors[k].file # <<toLoad[i].refid, ".xml">>
                   /\ shouldIncludeEntity(popts, container)
                        => def.id \in entityIds(r.entities)
                   /\ \A j \in 1..Len(requestedMembers(popts, toLoad[i])) :
                        requestedMembers(popts, toLoad[i])[j].id \in entityIds(r.entities)

\* the class Widget, whose member count is a variable, is parsed before the
\* namespace ns: one warning for count, no error, and the class, its method
\* draw and the namespace's function are all in the result
C21_Witness ==
  /\ presult # Undefined
  /\ popts.entityTypes = Undefined
  /\ Len(toLoad) = 2
  /\ toLoad[1].refid = "classns_1_1Widget"
  /\ toLoad[2].refid = "namespacens"
  /\ Len(Get(presult).errors) = 1
  /\ Get(presult).errors[1].severity = "warning"
  /\ Get(presult).errors[1].entityId = Some("classns_1_1Widget_1a2")
  /\ {"classns_1_1Widget", "classns_1_1Widget_1a1", "namespacens_1a2"}
       \subseteq entityIds(Get(presult).entities)


\* the ids a sound compound document holds, in document order: the container,
\* then the members section by section
documentOrder(compound) ==
  IF compoundBuilds(compound)
    THEN LET def == CompoundDoc(compound.refid).compounddef
             all == flatten(def.sectiondef)
         IN  <<def.id>> \o [i \in 1..Len(all) |-> all[i].id]
    ELSE <<>>

\* C22: the entities of a ParseResult are listed compound by compound in the
\* index document's compound order, within a compound the container before its
\* members and the members in section order then member order: their ids are
\* the ids of the index's documents, in that order, less the ids left out.
C22_EntitiesInDocumentOrder ==
  presult # Undefined =>
    LET r == Get(presult)
        ids == [i \in 1..Len(r.entities) |-> r.entities[i].id]
        indexOrder == flatten([i \in 1..Len(fs.index.compounds) |->
                                 documentOrder(fs.index.compounds[i])])
        present(id) == id \in entityIds(r.entities)
    IN  ids = SelectSeq(indexOrder, present)

\* private entities are included and the index lists the namespace before the
\* class: the namespace and its function come first, then the class, its method
\* of the first section and its method of the second
C22_Witness ==
  /\ presult # Undefined
  /\ popts.includePrivate
  /\ Len(fs.index.compounds) = 2
  /\ fs.index.compounds[1].refid = "namespacens"
  /\ fs.index.compounds[2].refid = "classns_1_1Widget"
  /\ Len(Get(presult).entities) = 5
  /\ Get(presult).entities[1].id = "namespacens"
  /\ Get(presult).entities[2].id = "namespacens_1a2"
  /\ Get(presult).entities[3].id = "classns_1_1Widget"
  /\ Get(presult).entities[4].id = "classns_1_1Widget_1a1"
  /\ Get(presult).entities[5].id = "classns_1_1Widget_1a3"


C24_FileCompoundProcessed ==
  (/\ presult # Undefined
   /\ popts.entityTypes = Undefined \/ inList(Get(popts.entityTypes), "function"))
    => \A i \in 1..Len(fs.index.compounds) :
         LET compound == fs.index.compounds[i]
             r == Get(presult)
         IN  (compound.kind = "file" /\ ~documentFails(compound)) =>
               /\ \A j \in 1..Len(requestedMembers(popts, compound)) :
                    \E k \in 1..Len(r.entities) :
                      /\ r.entities[k].id = requestedMembers(popts, compound)[j].id
                      /\ r.entities[k].kind = "function"
               /\ \A k \in 1..Len(r.errors) :
                    r.errors[k].file # <<compound.refid, ".xml">>


\* the document of a retained compound cannot be read
unreadable(compound) == CompoundDoc(compound.refid).state = "unreadable"

\* parse found a document to take for the index
indexFound ==
  fs.listing.ok /\ findIndexFile(findDoxygenFiles(fs.listing.entries)) # <<>>

\* C25 as stated: once parse has settled, it has thrown and returned no
\* ParseResult whenever the read of the index document or of a retained
\* compound's document failed.
C25_AnyReadFailureFatal ==
  (/\ pc \in {"done", "failed"}
   /\ indexFound
   /\ \/ fs.index.state = "unreadable"
      \/ \E i \in 1..Len(toLoad) : unreadable(toLoad[i]))
    => pc = "failed" /\ presult = Undefined

\* C25 amended: a failed read of the index document is fatal, parse throws and
\* returns no ParseResult; a failed read of a retained compound's document is
\* not: parse returns a ParseResult whenever the index was read and has its
\* root, and each compound whose document could not be read has an
\* error-severity entry naming its file and no entity in the result.
C25_OnlyIndexReadFailureFatal ==
  /\ (pc \in {"done", "failed"} /\ indexFound /\ fs.index.state = "unreadable")
       => pc = "failed" /\ presult = Undefined
  /\ (pc \in {"done", "failed"} /\ indexFound /\ fs.index.state = "ok")
       => pc = "done" /\ presult # Undefined
  /\ presult # Undefined =>
       \A i \in 1..Len(toLoad) :
         unreadable(toLoad[i]) =>
           /\ \E k \in 1..Len(Get(presult).errors) :
                /\ Get(presult).errors[k].file = <<toLoad[i].refid, ".xml">>
                /\ Get(presult).errors[k].severity = "error"
           /\ toLoad[i].refid \notin entityIds(Get(presult).entities)

\* the first compound's document could not be read and the namespace after it
\* was parsed: parse returned its entities and one error for structGone.xml
C25_Witness ==
  /\ presult # Undefined
  /\ Len(toLoad) = 2
  /\ toLoad[1].refid = "structGone"
  /\ toLoad[2].refid = "namespacens"
  /\ Len(Get(presult).errors) = 1
  /\ Get(presult).errors[1].file = <<"structGone", ".xml">>
  /\ "namespacens_1a2" \in entityIds(Get(presult).entities)


\* C26: a parser whose entityTypes is the empty list retains every compound of
\* the index and returns the entities that a parser without entityTypes, and
\* otherwise the same options, returns on the same directory.
C26_EmptyListIsNoFilter ==
  (presult # Undefined /\ popts.entityTypes = Some(<<>>)) =>
    LET unfiltered == [popts EXCEPT !.entityTypes = Undefined]
    IN  /\ toLoad = fs.index.compounds
        /\ Get(presult).entities =
             flatten([i \in 1..Len(fs.index.compounds) |->
                        parseCompoundFile(unfiltered, fs.index.compounds[i]).entities])


-----------------------------------------------------------------------------
(* Properties of the Simple engine's highlights, under ScenarioSpec *)

\* p is where t first occurs in n, counting from 0
firstOccurrence(n, t, p) ==
  /\ p \in 0..(Len(n) - Len(t))
  /\ SubSeq(n, p + 1, p + Len(t)) = t
  /\ \A q \in 0..(p - 1) : SubSeq(n, q + 1, q + Len(t)) # t

\* C27: with enableHighlights on, every result of a completed Simple search
\* carries one highlight per matched field, in matchedFields order, whose start
\* is where the normalized term first occurs in the normalized field, whose
\* length is the term's, and which ends within the normalized field; with
\* enableHighlights off, the result's highlights is absent.
C27_OneHighlightPerMatchedField ==
  Returned =>
    \A i \in 1..Len(ret.results) :
      LET result == ret.results[i]
          entity == entities[result.entity]
          term == IF options.caseSensitive THEN ret.query.term
                  ELSE toLowerCase(ret.query.term)
      IN  IF options.enableHighlights
            THEN /\ result.highlights # Undefined
                 /\ Len(Get(result.highlights)) = Len(result.matchedFields)
                 /\ \A k \in 1..Len(result.matchedFields) :
                      LET h == Get(result.highlights)[k]
                          field == IF options.caseSensitive THEN entity[h.field]
                                   ELSE toLowerCase(entity[h.field])
                      IN  /\ h.field = result.matchedFields[k].fieldName
                          /\ firstOccurrence(field, term, h.start)
                          /\ h.length = Len(term)
                          /\ h.start + h.length <= Len(field)
            ELSE result.highlights = Undefined

\* a case-insensitive search for WIDGET with highlights on returned Widget,
\* matched in name at 0 and in qualifiedName at 4, each highlight 6 long
C27_Witness ==
  /\ Returned
  /\ options.enableHighlights
  /\ ~options.caseSensitive
  /\ ret.query.term = S_WIDGET
  /\ Len(ret.results) = 1
  /\ Len(ret.results[1].matchedFields) = 2
  /\ Get(ret.results[1].highlights)[1].field = "name"
  /\ Get(ret.results[1].highlights)[1].start = 0
  /\ Get(ret.results[1].highlights)[2].field = "qualifiedName"
  /\ Get(ret.results[1].highlights)[2].start = 4
  /\ Get(ret.results[1].highlights)[2].length = 6


-----------------------------------------------------------------------------
(* searchCommand *)

\* the queries the command is given
CommandQueries == {<<>>, <<" ">>, S_Widget, S_ns}

\* finalConfig, as far as searchCommand reads it
CommandConfigs ==
  [path : {Undefined, Some(xmlPath)}, type : {"all", "class"},
   caseInsensitive : {Undefined, Some(TRUE)}, exact : {FALSE},
   limit : {Undefined, Some(<<"2">>)}]

\* validateSearchQuery throws on an empty or blank query
validateSearchQuery(query) == \E i \in 1..Len(query) : query[i] # " "

\* validatePath throws without a path, without a directory there, or without an
\* index.xml in it
validatePath(path, dir) ==
  /\ path # Undefined
  /\ dir.listing.ok
  /\ inList(dir.listing.entries, N_index)

digitOf(c) ==
  CASE c = "0" -> 0 [] c = "1" -> 1 [] c = "2" -> 2 [] c = "3" -> 3 [] c = "4" -> 4
    [] c = "5" -> 5 [] c = "6" -> 6 [] c = "7" -> 7 [] c = "8" -> 8 [] c = "9" -> 9
    [] OTHER -> -1

RECURSIVE parseDigits(_, _)
parseDigits(s, acc) ==
  IF s = <<>> \/ digitOf(Head(s)) = -1 THEN acc
  ELSE parseDigits(Tail(s), 10 * acc + digitOf(Head(s)))

\* parseInt of {} (undefined) or {a string}: its leading digits; NaN is held as 0,
\* which || and slice treat alike
parseInt(s) ==
  IF s = Undefined \/ Get(s) = <<>> \/ digitOf(Head(Get(s))) = -1 THEN 0
  ELSE parseDigits(Get(s), 0)

\* finalConfig.type === 'all' ? undefined : [finalConfig.type]
commandEntityTypes(config) ==
  IF config.type = "all" THEN Undefined ELSE Some(<<config.type>>)

\* the options searchCommand configures its engine with
commandOptions(config) ==
  [caseSensitive |-> ~(config.caseInsensitive # Undefined /\ Get(config.caseInsensitive)),
   exactMatch |-> config.exact,
   maxResults |-> parseInt(config.limit)]

\* the query searchCommand hands to search
commandQuery(query, config) ==
  [term |-> query, entityTypes |-> commandEntityTypes(config),
   exactMatch |-> Undefined, maxResults |-> Undefined]

\* searchCommand is called, once in the life of its process: a failed
\* validation throws; otherwise parseDoxygenXML constructs a parser and calls
\* parse
SearchCommandCall ==
  /\ cmd.state = "idle"
  /\ \E query \in CommandQueries, config \in CommandConfigs, dir \in FileSystems :
       IF validateSearchQuery(query) /\ validatePath(config.path, dir)
         THEN /\ cmd' = [state |-> "parsing", query |-> query, config |-> config]
              /\ popts' = mergeOptions([entityTypes |-> commandEntityTypes(config),
                                        includePrivate |-> Undefined,
                                        parallel |-> Undefined])
              /\ fs' = dir
              /\ errors' = <<>>
              /\ pc' = "readdir"
              /\ files' = <<>>
              /\ toLoad' = <<>>
              /\ done' = 0
              /\ pentities' = <<>>
              /\ presult' = Undefined
         ELSE /\ cmd' = [state |-> "threw", query |-> query, config |-> config]
              /\ UNCHANGED <<popts, fs, errors, pc, files, toLoad, done, pentities,
                             presult>>
  /\ UNCHANGED <<engineVars, sf, overlap, reading, built>>

\* parse threw: searchCommand throws in its turn
SearchCommandParseFailed ==
  /\ cmd.state = "parsing"
  /\ pc = "failed"
  /\ cmd' = [cmd EXCEPT !.state = "threw"]
  /\ UNCHANGED <<engineVars, sf, overlap, reading, built, fs, popts, pc, files, toLoad,
                 done, pentities, errors, presult>>

\* parse returned: searchCommand creates a simple engine, configures it and
\* searches; the engine is the command's own and nothing is loaded into it
SearchCommandSearch ==
  /\ cmd.state = "parsing"
  /\ pc = "done"
  /\ LET opts == configure(getDefaultOptions, commandOptions(cmd.config))
         query == commandQuery(cmd.query, cmd.config)
         out == SimpleSearch(opts, <<>>, query)
     IN  /\ engineType' = "simple"
         /\ options' = opts
         /\ entities' = <<>>
         /\ fuse' = Undefined
         /\ everLoaded' = FALSE
         /\ stats' = Some(out.stats)
         /\ ret' = [op |-> "search", query |-> query, status |-> "ok",
                    results |-> out.results]
         /\ cmd' = [state |-> "done", query |-> cmd.query, config |-> cmd.config,
                    results |-> out.results]
  /\ UNCHANGED <<sf, overlap, reading, built, fs, popts, pc, files, toLoad, done,
                 pentities, errors, presult>>

NextCommand ==
  \/ SearchCommandCall
  \/ FindFilesReturns
  \/ ParseIndexThrows
  \/ ParseIndexReturns
  \/ ParseCompound
  \/ SearchCommandParseFailed
  \/ SearchCommandSearch

InitCommand == InitSearch({"simple"})

CommandSpec == InitCommand /\ [][NextCommand]_vars

\* C28: when searchCommand has searched, its engine had been loaded with the
\* entities parse returned, and a query contained in the name of one of them
\* gave a result that is not empty.
C28_LoadedBeforeSearch ==
  (cmd.state = "done" /\ options.maxResults >= 1) =>
    /\ everLoaded
    /\ Len(entities) = Len(Get(presult).entities)
    /\ (\E i \in 1..Len(Get(presult).entities) :
          includes(normalize(options, Get(presult).entities[i].name),
                   normalize(options, cmd.query)))
         => cmd.results # <<>>


-----------------------------------------------------------------------------
(* The fuzzy engine under changes of its distance threshold *)

\* the option subsets that set the distance threshold, in tenths
ThresholdOptions == [fuzzyThreshold : {0, 2, 6}]

\* queries without a kind filter or a limit of their own
ThresholdQueries ==
  [term : {S_ns}, entityTypes : {Undefined}, exactMatch : {Undefined},
   maxResults : {Undefined}]

NextThreshold ==
  \/ Configure(ThresholdOptions)
  \/ LoadEntities
  \/ SearchFuzzyNotLoaded(ThresholdQueries)
  \/ SearchFuzzy(ThresholdQueries)

InitThreshold == InitSearch({"fuzzy"})

ThresholdSpec == InitThreshold /\ [][NextThreshold]_vars

\* C29: loadEntities builds the fuzzy index over the given list with the
\* distance threshold options.fuzzyThreshold, or 0.4 when that is unset or zero;
\* configure leaves the index and its threshold as they are, and a search returns
\* what that index finds for the term, whatever options.fuzzyThreshold is by then.
C29_ThresholdFixedAtLoad ==
  [][/\ ret'.op = "loadEntities" =>
          /\ fuse' # Undefined
          /\ Get(fuse').docs = entities'
          /\ Get(fuse').threshold =
               (IF "fuzzyThreshold" \in DOMAIN options /\ options.fuzzyThreshold # 0
                  THEN options.fuzzyThreshold ELSE 4)
     /\ ret'.op = "configure" => fuse' = fuse
     /\ (ret'.op = "search" /\ ret'.status = "ok") =>
          /\ fuse' = fuse
          /\ Len(ret'.results) = Len(Get(fuse).found[ret'.query.term])
          /\ \A i \in 1..Len(ret'.results) :
               /\ ret'.results[i].entity = Get(fuse).found[ret'.query.term][i].item
               /\ ret'.results[i].relevance =
                    (10 - Get(fuse).found[ret'.query.term][i].score) * (RelOne \div 10)
    ]_vars

\* the index was built with the threshold 0.6, configure then set the threshold
\* to 0.2, and a search still returned a match at distance 0.5
C29_Witness ==
  /\ Returned
  /\ engineType = "fuzzy"
  /\ "fuzzyThreshold" \in DOMAIN options
  /\ options.fuzzyThreshold = 2
  /\ Get(fuse).threshold = 6
  /\ \E i \in 1..Len(ret.results) : ret.results[i].relevance = 5 * (RelOne \div 10)


-----------------------------------------------------------------------------
(* Two parse calls on one DoxygenParser.  this.errors names an array of the  *)
(* heap; parse names a new one on entry, pushes to the one named at the time *)
(* of the push, and returns the one named at the time it returns.            *)

\* the compounds the indexes of the two directories list, in order: among one
\* whose document has no compounddef, one with a member that has no builder,
\* and one sound
OverlapIndexes ==
  SeqsUpTo({c \in CompoundPool :
              c.refid \in {"classBroken", "classns_1_1Widget", "namespacens"}},
           MaxCompounds)

\* parse is called: this.errors = [], then it waits for the listing
OverlapParseCall(c) ==
  /\ overlap.calls[c].pc = "idle"
  /\ \E compounds \in OverlapIndexes :
       overlap' = [heap |-> Append(overlap.heap, <<>>),
                   cur |-> Len(overlap.heap) + 1,
                   calls |-> [overlap.calls EXCEPT
                                ![c] = [@ EXCEPT !.pc = "readdir",
                                                 !.compounds = compounds]]]
  /\ UNCHANGED <<engineVars, sf, fs, popts, pc, files, toLoad, done, pentities, errors,
                 presult, built, reading, cmd>>

\* the listing arrives: parseIndexFile starts reading the index
OverlapFindFiles(c) ==
  /\ overlap.calls[c].pc = "readdir"
  /\ overlap' = [overlap EXCEPT !.calls[c].pc = "readIndex"]
  /\ UNCHANGED <<engineVars, sf, fs, popts, pc, files, toLoad, done, pentities, errors,
                 presult, built, reading, cmd>>

\* the index is parsed and its compounds filtered; with none to load parse
\* returns the array this.errors names
OverlapParseIndex(c) ==
  /\ overlap.calls[c].pc = "readIndex"
  /\ LET call == overlap.calls[c]
         compoundsToLoad == filterCompounds(popts, call.compounds)
     IN  overlap' =
           [overlap EXCEPT
              !.calls[c] = IF compoundsToLoad = <<>>
                             THEN [call EXCEPT !.pc = "done",
                                               !.result = Some([entities |-> <<>>,
                                                                errors |-> overlap.cur])]
                             ELSE [call EXCEPT !.pc = "readCompound",
                                               !.toLoad = compoundsToLoad]]
  /\ UNCHANGED <<engineVars, sf, fs, popts, pc, files, toLoad, done, pentities, errors,
                 presult, built, reading, cmd>>

\* one turn of parseCompounds' loop: the errors go to the array this.errors
\* names now; after the last compound parse returns the array it names
OverlapParseCompound(c) ==
  /\ overlap.calls[c].pc = "readCompound"
  /\ LET call == overlap.calls[c]
         compound == call.toLoad[call.done + 1]
         out == parseCompoundFile(popts, compound)
         pushed == IF out.threw THEN <<compoundError(compound)>> ELSE out.warnings
         ents == call.pentities \o out.entities
         last == call.done + 1 = Len(call.toLoad)
     IN  overlap' =
           [heap |-> [overlap.heap EXCEPT ![overlap.cur] = @ \o pushed],
            cur |-> overlap.cur,
            calls |-> [overlap.calls EXCEPT
                         ![c] = [@ EXCEPT
                                   !.pc = IF last THEN "done" ELSE "readCompound",
                                   !.done = call.done + 1,
                                   !.pentities = ents,
                                   !.raised = call.raised \o pushed,
                                   !.result = IF last
                                                THEN Some([entities |-> ents,
                                                           errors |-> overlap.cur])
                                                ELSE Undefined]]]
  /\ UNCHANGED <<engineVars, sf, fs, popts, pc, files, toLoad, done, pentities, errors,
                 presult, built, reading, cmd>>

NextOverlap ==
  \E c \in OverlapCalls :
    \/ OverlapParseCall(c)
    \/ OverlapFindFiles(c)
    \/ OverlapParseIndex(c)
    \/ OverlapParseCompound(c)

InitOverlap == InitSearch({"simple"})

OverlapSpec == InitOverlap /\ [][NextOverlap]_vars

\* C30: the errors of every ParseResult are exactly the ParseErrors raised
\* during the parse call that returned it, also when another call on the same
\* parser ran before it or overlaps it.
C30_ErrorsOfOwnCall ==
  \A c \in OverlapCalls :
    overlap.calls[c].result # Undefined =>
      overlap.heap[Get(overlap.calls[c].result).errors] = overlap.calls[c].raised

====
